---- MODULE Spec2Model ----
(***************************************************************************)
(* Model of the lightweight V8 Lambda runtime:                             *)
(*   src/src/aws.rs   AWSRuntimeAPIClient, HandlerError, LambdaRuntime     *)
(*   src/src/main.rs  JSHandler, execute_global_function, Transfer        *)
(*                                                                         *)
(* LambdaRuntime::start is a single sequential loop (tokio, one thread):   *)
(* pc is its position.  The platform's HTTP responses, the handler script  *)
(* and the outcomes of a non-script Handler are the inputs.                *)
(***************************************************************************)
EXTENDS Integers, Sequences, FiniteSets, TLC

VARIABLES pc, runtime_api_url, task_handler, work, task_result, response,
          ret, trace, requests, session

vars == <<pc, runtime_api_url, task_handler, work, task_result, response,
          ret, trace, requests, session>>

(* ---------------------------------------------------------------- bounds *)
\* number of get_next_unit_of_work calls explored in one run of start
MaxFetches == 2

(* ------------------------------------------------------------ data model *)
\* every value (JSON value, script value, error) is a tagged pair
V(t, s) == [t |-> t, s |-> s]
NoValue == V("none", "")

\* serde_json::Value payloads the platform may send
Payloads == { V("string", "input"), V("object", "{x:1}"), V("number", "1") }

\* HandlerError variants
ClientError == V("ClientError", "")
ServerError(m) == V("ServerError", m)
\* an anyhow::Error that does not downcast to HandlerError
Opaque(m) == V("opaque", m)

\* Result<T>
Ok(v) == [ok |-> TRUE, v |-> v]
Err(e) == [ok |-> FALSE, v |-> e]

\* RequestId(String) / Invocation<T>
Invocation(id, p) == [request_id |-> id, payload |-> p]
NoWork == Invocation("", NoValue)

(* ---------------------------------------------------- platform responses *)
Statuses == {200, 204, 500}
\* what the HTTP contract calls a success status
IsSuccess(status) == status \in 200..299

\* the Lambda-Runtime-Aws-Request-Id header of a response: absent, present
\* with bytes to_str rejects, or present with a visible-ASCII value
NoHeader == [present |-> FALSE, ascii |-> FALSE, text |-> ""]
BinaryHeader == [present |-> TRUE, ascii |-> FALSE, text |-> ""]
Header(t) == [present |-> TRUE, ascii |-> TRUE, text |-> t]
\* "a b" is a header value to_str accepts and Uri::from_str rejects
RequestIds == {"abc", "def", "a b"}
Headers == {NoHeader, BinaryHeader} \cup {Header(t) : t \in RequestIds}

\* a response body: valid JSON carrying v, or bytes that are not JSON
Body(v) == [json |-> TRUE, v |-> v]
BadBody == [json |-> FALSE, v |-> NoValue]
Bodies == {BadBody} \cup {Body(p) : p \in Payloads}

NoResponse == [transport |-> FALSE, status |-> 0, header |-> NoHeader, body |-> BadBody]
\* client.request(..).await failed: no response at all
TransportError == [transport |-> FALSE, status |-> -1, header |-> NoHeader, body |-> BadBody]
FetchResponses ==
    {TransportError} \cup
    [transport : {TRUE}, status : Statuses, header : Headers, body : Bodies]
ReportResponses ==
    {TransportError} \cup
    [transport : {TRUE}, status : Statuses, header : {NoHeader}, body : {BadBody}]

\* runtime_api_url values: one Uri::from_str accepts, one it rejects
GoodUrl == "http://127.0.0.1:9001"
BadUrl == "bad url"
UriOk(base, id) == base = GoodUrl /\ id # "a b"

(* ------------------------------------------------- src/src/aws.rs client *)
REQUEST_ID_HEADER == "Lambda-Runtime-Aws-Request-Id"

\* HTTP requests as built by Request::builder(): no .method(..) is set, so
\* the builder's default method is used
Request(uri) == [method |-> "GET", uri |-> uri]

\* from_request defaulting to an empty id when the header is absent
from_request_DefaultId(result) ==
    IF ~result.header.present
    THEN [ok |-> TRUE, id |-> "", err |-> NoValue]
    ELSE IF ~result.header.ascii
    THEN [ok |-> FALSE, id |-> "",
          err |-> Opaque("Failed to parse header " \o REQUEST_ID_HEADER)]
    ELSE [ok |-> TRUE, id |-> result.header.text, err |-> NoValue]

\* RequestId::from_request
from_request(result) ==
    IF ~result.header.present
    THEN [ok |-> FALSE, id |-> "",
          err |-> Opaque("Missing header " \o REQUEST_ID_HEADER
                         \o " from next unit of work response")]
    ELSE IF ~result.header.ascii
    THEN [ok |-> FALSE, id |-> "",
          err |-> Opaque("Failed to parse header " \o REQUEST_ID_HEADER)]
    ELSE [ok |-> TRUE, id |-> result.header.text, err |-> NoValue]

\* ensure!(result.status() != StatusCode::OK, ..): TRUE when the call goes on
StatusAccepted(status) == status # 200

\* AWSRuntimeAPIClient::get_next_unit_of_work, as a function of the client's
\* base url and of the platform's answer; sent tells whether a request left
get_next_unit_of_work(base, result) ==
    IF ~UriOk(base, "")
    THEN [sent |-> FALSE, ok |-> FALSE, work |-> NoWork,
          err |-> Opaque("invalid uri")]
    ELSE IF ~result.transport
    THEN [sent |-> TRUE, ok |-> FALSE, work |-> NoWork,
          err |-> Opaque("Error fetching next unit of work from lambda API")]
    ELSE IF ~StatusAccepted(result.status)
    THEN [sent |-> TRUE, ok |-> FALSE, work |-> NoWork,
          err |-> Opaque("Invalid status code returned from next unit of work API")]
    ELSE IF ~from_request(result).ok
    THEN [sent |-> TRUE, ok |-> FALSE, work |-> NoWork,
          err |-> from_request(result).err]
    ELSE IF ~result.body.json
    THEN [sent |-> TRUE, ok |-> FALSE, work |-> NoWork,
          err |-> Opaque("serde_json error")]
    ELSE [sent |-> TRUE, ok |-> TRUE,
          work |-> Invocation(from_request(result).id, result.body.v),
          err |-> NoValue]

\* serde_json::to_string of a serde_json::Value or a HandlerError does not
\* fail, so the `?` after it is never taken.
\* AWSRuntimeAPIClient::report_success as a function of the platform's
\* answer: Uri::from_str(..).unwrap() panics on a uri it rejects, then the
\* request is sent and ensure! looks at the status.  res: "Ok", "Err", "panic"
report_success(base, request_id, result) ==
    IF ~UriOk(base, request_id)
    THEN [sent |-> FALSE, res |-> "panic", err |-> NoValue]
    ELSE IF ~result.transport
    THEN [sent |-> TRUE, res |-> "Err",
          err |-> Opaque("Error reporting success to lambda API")]
    ELSE IF ~StatusAccepted(result.status)
    THEN [sent |-> TRUE, res |-> "Err",
          err |-> Opaque("Invalid status code returned from next unit of work API")]
    ELSE [sent |-> TRUE, res |-> "Ok", err |-> NoValue]

\* AWSRuntimeAPIClient::report_error
report_error(base, request_id, result) ==
    IF ~UriOk(base, request_id)
    THEN [sent |-> FALSE, res |-> "panic", err |-> NoValue]
    ELSE IF ~result.transport
    THEN [sent |-> TRUE, res |-> "Err",
          err |-> Opaque("Error reporting error to lambda API")]
    ELSE IF ~StatusAccepted(result.status)
    THEN [sent |-> TRUE, res |-> "Err",
          err |-> Opaque("Invalid status code returned from next unit of work API")]
    ELSE [sent |-> TRUE, res |-> "Ok", err |-> NoValue]

\* the uris the three calls format
NextUri(base) == base \o "/runtime/invocation/next"
ResponseUri(base, id) == base \o "/runtime/invocation/" \o id \o "/response"
ErrorUri(base, id) == base \o "/runtime/invocation/" \o id \o "/error"

(* ------------------------------------------ HandlerError and its Display *)
\* impl Display for HandlerError: the Debug rendering of the value; for any
\* other anyhow::Error, format!("{}", err) is its message
Display(err) ==
    IF err.t = "ClientError" THEN "ClientError"
    ELSE IF err.t = "ServerError" THEN "ServerError(\"" \o err.s \o "\")"
    ELSE err.s

\* serializable_error with the ClientError arm lost
serializable_error_NoClientArm(err) == ServerError(Display(err))

\* serializable_error forwarding every HandlerError as it is
serializable_error_ForwardTagged(err) ==
    IF err.t \in {"ClientError", "ServerError"} THEN err
    ELSE ServerError(Display(err))

\* LambdaRuntime::start, the match on err.downcast_ref::<HandlerError>()
serializable_error(err) ==
    IF err.t = "ClientError" THEN ClientError
    ELSE ServerError(Display(err))

(* ------------------------------------------ src/src/main.rs: the sandbox *)
\* impl Transfer for serde_json::Value: host value -> script value
transfer(v) ==
    IF v.t = "string" THEN V("string", v.s)
    ELSE IF v.t = "object" THEN V("object", "{}")
    ELSE V("undefined", "")

\* The handler scripts explored (JSHandler.function), by what the global "a"
\* is once the top-level code has run:
\*   absent      no global a
\*   notfn       a = 1
\*   throws      function a(e) { throw new Error("bad input") }
\*   throwsfault function a(e) { throw "ClientError" }
\*   identity    function a(e) { return e }
\*   retnum      function a(e) { return 2 }
\*   double      function a(e) { return e.x * 2 }
\*   counter     var n = 0; function a(e) { n = n + 1; return String(n) }
\*   deferred    function a(e) returns a promise that two platform tasks,
\*               posted during the call, settle with "done"
\*   background  function a(e) posts two platform tasks and returns "started"
\*   syntax      source that Script::compile rejects
Scripts ==
    {"absent", "notfn", "throws", "throwsfault", "identity", "retnum", "double",
     "counter", "deferred", "background", "syntax"}

\* the script-visible state of one v8::Context: the global n of "counter"
Context(n) == [n |-> n]
\* v8::Context::new followed by script.run: the globals after the top-level
\* code of the script has run in a new context
RunScript(script) == Context(0)

\* String(n) for the counts a run can reach
NumberToString(n) ==
    CASE n = 1 -> "1" [] n = 2 -> "2" [] n = 3 -> "3" [] n = 4 -> "4"
      [] OTHER -> "0"

\* outcome of looking up and calling the entry point with a script value
Outcome(kind, v) == [kind |-> kind, v |-> v]
NoCall == Outcome("none", NoValue)
EntryPoint(context, script, arg) ==
    CASE script = "absent" -> Outcome("missing", NoValue)
      [] script = "notfn" -> Outcome("notcallable", NoValue)
      [] script = "throws" -> Outcome("throw", V("Error", "bad input"))
      [] script = "throwsfault" -> Outcome("throw", V("string", "ClientError"))
      [] script = "identity" -> Outcome("return", arg)
      [] script = "retnum" -> Outcome("return", V("number", "2"))
      [] script = "double" ->
            IF arg.t = "undefined"
            THEN Outcome("throw", V("TypeError", "Cannot read property 'x' of undefined"))
            ELSE Outcome("return", V("number", "NaN"))
      [] script = "counter" -> Outcome("return", V("string", NumberToString(context.n + 1)))
      [] script = "deferred" -> Outcome("return", V("promise", "pending"))
      [] script = "background" -> Outcome("return", V("string", "started"))
      [] OTHER -> NoCall

\* the globals the call leaves behind in its context
AfterCall(context, script) ==
    IF script = "counter" THEN Context(context.n + 1) ELSE context

\* the platform tasks the call leaves pending on the isolate
Pending(script) == IF script \in {"deferred", "background"} THEN 2 ELSE 0

\* JSPlatform::pump_message_loop: v8::pump_message_loop runs one pending
\* task if there is one
pump_message_loop(queue) == IF queue > 0 THEN queue - 1 ELSE 0

\* execute_global_function: Result<String>, the String carried as a value.
\* Lines 59-60 (the unfinished Promise handling) take no part in the result,
\* which the match on lines 62-68 computes from the call alone.  "String
\* expected" stands for the text of rusty_v8's conversion error.
execute_global_function(context, script, parameter) ==
    LET call == EntryPoint(context, script, parameter) IN
    IF call.kind \in {"missing", "notcallable"}
    THEN Err(Opaque("Reference a was not a function"))
    ELSE IF call.kind = "throw"
    THEN Err(Opaque("Encountered exception"))
    ELSE IF call.v.t # "string"
    THEN Err(Opaque("String expected"))
    ELSE Ok(V("string", call.v.s))

\* JSHandler::handle as a function of the script and the payload: res is
\* "Ok", "Err" or "panic" (Script::compile(..).unwrap())
handle(script, input) ==
    IF script = "syntax"
    THEN [res |-> "panic", out |-> NoValue, js |-> NoCall]
    ELSE LET context == RunScript(script)
             input_v8 == transfer(input)
             result == execute_global_function(context, script, input_v8)
         IN  [res |-> IF result.ok THEN "Ok" ELSE "Err",
              out |-> result.v,
              js |-> EntryPoint(context, script, input_v8)]

\* what another implementation of trait Handler may return
DynOutcomes ==
    { Ok(V("number", "2")), Err(ClientError), Err(ServerError("boom")),
      Err(Opaque("oops")) }

TaskHandlers ==
    {[kind |-> "js", script |-> s] : s \in Scripts} \cup
    {[kind |-> "dyn", script |-> ""]}

(* ------------------------------------------------- the run of start() *)
\* one entry per call the loop makes: the client calls and the handler call.
\* arg is what the call was given, out what it returned (the error on "Err"),
\* js the outcome of the script's entry point inside a JSHandler call
Event(op, rid, arg, res, out, js) ==
    [op |-> op, rid |-> rid, arg |-> arg, res |-> res, out |-> out, js |-> js]

FETCH == "get_next_unit_of_work"
IsFetch(e) == e.op = FETCH
IsReport(e) == e.op \in {"report_success", "report_error"}
IsHandle(e) == e.op = "handle"

\* number of entries of trace[1..n] that satisfy P
Count(P(_), n) == Cardinality({i \in 1..n : P(trace[i])})
FetchOk(e) == IsFetch(e) /\ e.res = "Ok"

NoResult == [ok |-> FALSE, v |-> NoValue]

\* The sandbox sessions of JSHandler::handle.  live counts the isolates
\* created and not yet dropped, created all isolates created so far; the
\* other fields are those of the session created last: its context, the
\* platform tasks pending on its isolate, the number of them that were
\* pending when the call's result was converted (-1: nothing converted), and
\* the locals `result` and the entry point's outcome.
NoSession ==
    [live |-> 0, created |-> 0, context |-> Context(0), queue |-> 0,
     read_pending |-> -1, result |-> NoResult, js |-> NoCall]
NotReturned == [returned |-> FALSE, v |-> NoValue]
Returned(e) == [returned |-> TRUE, v |-> e]

Init ==
    /\ pc = "fetch"
    /\ runtime_api_url \in {GoodUrl, BadUrl}
    /\ task_handler \in TaskHandlers
    /\ work = NoWork
    /\ task_result = NoResult
    /\ response = NoResponse
    /\ ret = NotReturned
    /\ trace = <<>>
    /\ requests = <<>>
    /\ session = NoSession

\* start, line 192: self.client.get_next_unit_of_work::<Input>().await?
GetNextUnitOfWork ==
    /\ pc = "fetch"
    /\ Count(IsFetch, Len(trace)) < MaxFetches
    /\ \E result \in FetchResponses :
         LET r == get_next_unit_of_work(runtime_api_url, result) IN
         /\ trace' = Append(trace,
                Event(FETCH, r.work.request_id, NoValue,
                      IF r.ok THEN "Ok" ELSE "Err",
                      IF r.ok THEN r.work.payload ELSE r.err, NoCall))
         /\ requests' = IF r.sent
                        THEN Append(requests, Request(NextUri(runtime_api_url)))
                        ELSE requests
         /\ response' = IF r.sent THEN result ELSE NoResponse
         /\ IF r.ok
            THEN pc' = "handle" /\ work' = r.work /\ ret' = ret
            ELSE pc' = "returned" /\ work' = work /\ ret' = Returned(r.err)
    /\ UNCHANGED <<runtime_api_url, task_handler, task_result, session>>

\* HandleJS running the script in the context of the session before, when
\* there is one, instead of a new context
HandleJS_ReuseContext ==
    /\ pc = "handle"
    /\ task_handler.kind = "js"
    /\ IF task_handler.script = "syntax"
       THEN /\ session' = [session EXCEPT !.created = @ + 1]
            /\ trace' = Append(trace,
                   Event("handle", "", work.payload, "panic", NoValue, NoCall))
            /\ pc' = "panicked"
       ELSE /\ session' = [live |-> session.live + 1,
                           created |-> session.created + 1,
                           context |-> IF session.created > 0
                                       THEN session.context
                                       ELSE RunScript(task_handler.script),
                           queue |-> 0, read_pending |-> -1,
                           result |-> NoResult, js |-> NoCall]
            /\ trace' = trace
            /\ pc' = "sandbox"
    /\ UNCHANGED <<runtime_api_url, task_handler, work, task_result, response,
                   ret, requests>>

\* start, line 194, with task_handler a JSHandler: handle, lines 129-144.
\* A new isolate and a new context are created and the script is compiled
\* and run in it; Script::compile(..).unwrap() panics on a script that does
\* not compile, and the unwinding drops the isolate.
HandleJS ==
    /\ pc = "handle"
    /\ task_handler.kind = "js"
    /\ IF task_handler.script = "syntax"
       THEN /\ session' = [session EXCEPT !.created = @ + 1]
            /\ trace' = Append(trace,
                   Event("handle", "", work.payload, "panic", NoValue, NoCall))
            /\ pc' = "panicked"
       ELSE /\ session' = [live |-> session.live + 1,
                           created |-> session.created + 1,
                           context |-> RunScript(task_handler.script),
                           queue |-> 0, read_pending |-> -1,
                           result |-> NoResult, js |-> NoCall]
            /\ trace' = trace
            /\ pc' = "sandbox"
    /\ UNCHANGED <<runtime_api_url, task_handler, work, task_result, response,
                   ret, requests>>

\* ExecuteGlobalFunction with the isolate kept alive when `?` returns early
ExecuteGlobalFunction_Leak ==
    /\ pc = "sandbox"
    /\ LET input_v8 == transfer(work.payload)
           call == EntryPoint(session.context, task_handler.script, input_v8)
           result == execute_global_function(session.context,
                                             task_handler.script, input_v8)
           called == call.kind \in {"return", "throw"}
           queue == IF called THEN Pending(task_handler.script) ELSE 0
       IN  /\ session' =
                [session EXCEPT
                   !.context = IF called
                               THEN AfterCall(session.context, task_handler.script)
                               ELSE @,
                   !.queue = queue,
                   !.read_pending = IF call.kind = "return" THEN queue ELSE -1,
                   !.result = result,
                   !.js = call]
           /\ IF result.ok
              THEN pc' = "pump" /\ trace' = trace /\ task_result' = task_result
              ELSE /\ pc' = "report"
                   /\ trace' = Append(trace,
                          Event("handle", "", work.payload, "Err", result.v, call))
                   /\ task_result' = result
    /\ UNCHANGED <<runtime_api_url, task_handler, work, response, ret, requests>>

\* handle, lines 146-147: the payload is transferred, the entry point is
\* looked up and called and its result converted to a String; on Err the `?`
\* returns from handle, which drops the isolate.
ExecuteGlobalFunction ==
    /\ pc = "sandbox"
    /\ LET input_v8 == transfer(work.payload)
           call == EntryPoint(session.context, task_handler.script, input_v8)
           result == execute_global_function(session.context,
                                             task_handler.script, input_v8)
           called == call.kind \in {"return", "throw"}
           queue == IF called THEN Pending(task_handler.script) ELSE 0
       IN  /\ session' =
                [session EXCEPT
                   !.live = IF result.ok THEN @ ELSE @ - 1,
                   !.context = IF called
                               THEN AfterCall(session.context, task_handler.script)
                               ELSE @,
                   !.queue = queue,
                   !.read_pending = IF call.kind = "return" THEN queue ELSE -1,
                   !.result = result,
                   !.js = call]
           /\ IF result.ok
              THEN pc' = "pump" /\ trace' = trace /\ task_result' = task_result
              ELSE /\ pc' = "report"
                   /\ trace' = Append(trace,
                          Event("handle", "", work.payload, "Err", result.v, call))
                   /\ task_result' = result
    /\ UNCHANGED <<runtime_api_url, task_handler, work, response, ret, requests>>

\* handle, lines 149-151: the message loop is pumped once and
\* Ok(Value::String(result)) is returned, which drops the isolate.
PumpMessageLoop ==
    /\ pc = "pump"
    /\ session' = [session EXCEPT !.live = @ - 1,
                                  !.queue = pump_message_loop(@)]
    /\ trace' = Append(trace,
           Event("handle", "", work.payload, "Ok", session.result.v, session.js))
    /\ task_result' = Ok(session.result.v)
    /\ pc' = "report"
    /\ UNCHANGED <<runtime_api_url, task_handler, work, response, ret, requests>>

\* HandleDyn handing the handler the payload of the first invocation of the run
HandleDyn_FirstPayload ==
    /\ pc = "handle"
    /\ task_handler.kind = "dyn"
    /\ \E o \in DynOutcomes :
         /\ trace' = Append(trace,
                Event("handle", "", trace[1].out,
                      IF o.ok THEN "Ok" ELSE "Err", o.v, NoCall))
         /\ task_result' = o
    /\ pc' = "report"
    /\ UNCHANGED <<runtime_api_url, task_handler, work, response, ret, requests,
                   session>>

\* start, line 194, with task_handler any other Handler
HandleDyn ==
    /\ pc = "handle"
    /\ task_handler.kind = "dyn"
    /\ \E o \in DynOutcomes :
         /\ trace' = Append(trace,
                Event("handle", "", work.payload,
                      IF o.ok THEN "Ok" ELSE "Err", o.v, NoCall))
         /\ task_result' = o
    /\ pc' = "report"
    /\ UNCHANGED <<runtime_api_url, task_handler, work, response, ret, requests,
                   session>>

\* Reported with the `?` dropped: a failed report is swallowed and the loop
\* goes on to the next fetch
Reported_Swallow(op, request_id, body, uri, r, result) ==
    /\ trace' = Append(trace, Event(op, request_id, body, r.res, r.err, NoCall))
    /\ requests' = IF r.sent THEN Append(requests, Request(uri)) ELSE requests
    /\ response' = IF r.sent THEN result ELSE NoResponse
    /\ pc' = CASE r.res = "Ok" -> "fetch"
               [] r.res = "Err" -> "fetch"
               [] OTHER -> "panicked"
    /\ ret' = ret
    /\ work' = NoWork
    /\ task_result' = NoResult
    /\ UNCHANGED <<runtime_api_url, task_handler, session>>

\* Reported with the loop left once a handler failure has been reported
Reported_StopAfterError(op, request_id, body, uri, r, result) ==
    /\ trace' = Append(trace, Event(op, request_id, body, r.res, r.err, NoCall))
    /\ requests' = IF r.sent THEN Append(requests, Request(uri)) ELSE requests
    /\ response' = IF r.sent THEN result ELSE NoResponse
    /\ pc' = CASE r.res = "Ok" /\ op = "report_error" -> "returned"
               [] r.res = "Ok" /\ op # "report_error" -> "fetch"
               [] r.res = "Err" -> "returned"
               [] OTHER -> "panicked"
    /\ ret' = CASE r.res = "Ok" /\ op = "report_error" -> Returned(body)
                [] r.res = "Err" -> Returned(r.err)
                [] OTHER -> ret
    /\ work' = NoWork
    /\ task_result' = NoResult
    /\ UNCHANGED <<runtime_api_url, task_handler, session>>

\* Reported with start returning Ok(()) after the first report
Reported_ReturnOk(op, request_id, body, uri, r, result) ==
    /\ trace' = Append(trace, Event(op, request_id, body, r.res, r.err, NoCall))
    /\ requests' = IF r.sent THEN Append(requests, Request(uri)) ELSE requests
    /\ response' = IF r.sent THEN result ELSE NoResponse
    /\ pc' = CASE r.res = "Ok" -> "returned"
               [] r.res = "Err" -> "returned"
               [] OTHER -> "panicked"
    /\ ret' = CASE r.res = "Ok" -> Returned(NoValue)
                [] r.res = "Err" -> Returned(r.err)
                [] OTHER -> ret
    /\ work' = NoWork
    /\ task_result' = NoResult
    /\ UNCHANGED <<runtime_api_url, task_handler, session>>

\* the effect on the loop of one report call that returned r: `?` returns the
\* error from start, Ok(()) ends the iteration
Reported(op, request_id, body, uri, r, result) ==
    /\ trace' = Append(trace, Event(op, request_id, body, r.res, r.err, NoCall))
    /\ requests' = IF r.sent THEN Append(requests, Request(uri)) ELSE requests
    /\ response' = IF r.sent THEN result ELSE NoResponse
    /\ pc' = CASE r.res = "Ok" -> "fetch"
               [] r.res = "Err" -> "returned"
               [] OTHER -> "panicked"
    /\ ret' = IF r.res = "Err" THEN Returned(r.err) ELSE ret
    /\ work' = NoWork
    /\ task_result' = NoResult
    /\ UNCHANGED <<runtime_api_url, task_handler, session>>

\* start, line 197: Ok(result) => report_success(work.request_id, result)
ReportSuccess ==
    /\ pc = "report"
    /\ task_result.ok
    /\ \E result \in ReportResponses :
         Reported("report_success", work.request_id, task_result.v,
                  ResponseUri(runtime_api_url, work.request_id),
                  report_success(runtime_api_url, work.request_id, result),
                  result)

\* ReportError with the Err arm reporting nothing
ReportError_Skip ==
    /\ pc = "report"
    /\ ~task_result.ok
    /\ pc' = "fetch"
    /\ work' = NoWork
    /\ task_result' = NoResult
    /\ UNCHANGED <<runtime_api_url, task_handler, response, ret, trace, requests,
                   session>>

\* ReportError reporting under the id of the first invocation of the run
ReportError_FirstId ==
    /\ pc = "report"
    /\ ~task_result.ok
    /\ \E result \in ReportResponses :
         Reported("report_error", trace[1].rid,
                  serializable_error(task_result.v),
                  ErrorUri(runtime_api_url, trace[1].rid),
                  report_error(runtime_api_url, trace[1].rid, result),
                  result)

\* start, lines 198-207: Err(err) => report_error(work.request_id, ..)
ReportError ==
    /\ pc = "report"
    /\ ~task_result.ok
    /\ \E result \in ReportResponses :
         Reported("report_error", work.request_id,
                  serializable_error(task_result.v),
                  ErrorUri(runtime_api_url, work.request_id),
                  report_error(runtime_api_url, work.request_id, result),
                  result)

Next ==
    \/ GetNextUnitOfWork
    \/ HandleJS
    \/ ExecuteGlobalFunction
    \/ PumpMessageLoop
    \/ HandleDyn
    \/ ReportSuccess
    \/ ReportError

Spec == Init /\ [][Next]_vars

TypeOK ==
    /\ pc \in {"fetch", "handle", "sandbox", "pump", "report", "returned",
              "panicked"}
    /\ session.live \in 0..1
    /\ session.queue \in 0..2
    /\ Len(trace) <= 3 * MaxFetches
    /\ Len(requests) <= 2 * MaxFetches

(* ================================================================ claims *)
Last == trace[Len(trace)]
IsClientCall(e) == IsFetch(e) \/ IsReport(e)
\* the response held is the platform's answer to the call logged last
AnsweredFetch == Len(trace) > 0 /\ IsFetch(Last) /\ response # NoResponse
AnsweredReport == Len(trace) > 0 /\ IsReport(Last) /\ response # NoResponse

\* C1: every fetch is issued with all earlier fetched invocations reported,
\* and every report is the one report of the invocation fetched last:
\* between two fetches there is exactly one report call.
C1_OneReportPerFetch ==
    \A i \in 1..Len(trace) :
      /\ IsFetch(trace[i]) => Count(IsReport, i - 1) = Count(FetchOk, i - 1)
      /\ IsReport(trace[i]) => Count(FetchOk, i - 1) = Count(IsReport, i - 1) + 1

\* a second fetch issued after an invocation was fetched and reported
C1_Witness ==
    /\ Len(trace) >= 4
    /\ FetchOk(trace[1]) /\ IsHandle(trace[2]) /\ IsReport(trace[3])
    /\ IsFetch(trace[4])

\* C2: the error given to report_error is ClientError exactly when the
\* handler's error is tagged ClientError, and otherwise ServerError of the
\* error's textual description.
C2_Classification ==
    \A i \in 1..Len(trace) :
      trace[i].op = "report_error" =>
        /\ i > 1 /\ IsHandle(trace[i - 1]) /\ trace[i - 1].res = "Err"
        /\ LET err == trace[i - 1].out
               description ==
                 CASE err.t = "opaque" -> err.s
                   [] err.t = "ServerError" -> "ServerError(\"" \o err.s \o "\")"
                   [] OTHER -> "ClientError"
           IN  /\ (trace[i].arg = ClientError) <=> (err.t = "ClientError")
               /\ err.t # "ClientError" => trace[i].arg = ServerError(description)

\* one run reporting a ClientError and an untyped error
C2_Witness ==
    \E i, j \in 1..Len(trace) :
      /\ trace[i].op = "report_error" /\ trace[i].arg = ClientError
      /\ trace[j].op = "report_error" /\ trace[j].arg = ServerError("oops")

\* C3: get_next_unit_of_work returns an Invocation exactly when the answer
\* has a success status, a parseable request-id header and a JSON body.
C3_FetchOkIffWellFormed ==
    AnsweredFetch =>
      ( Last.res = "Ok" <=>
          /\ response.transport
          /\ IsSuccess(response.status)
          /\ response.header.present /\ response.header.ascii
          /\ response.body.json )

\* C4: a report call returns Ok exactly when the platform answers it with a
\* success status.
C4_ReportOkIffSuccessStatus ==
    AnsweredReport =>
      ( Last.res = "Ok" <=> (response.transport /\ IsSuccess(response.status)) )

\* C5: a failed client call is the last call of the run: start has returned
\* that call's error and no request was sent after it.
C5_FailureAborts ==
    /\ \A i \in 1..Len(trace) :
         (IsClientCall(trace[i]) /\ trace[i].res = "Err") =>
           /\ i = Len(trace)
           /\ pc = "returned"
           /\ ret = Returned(trace[i].out)
    /\ Len(requests) <= Count(IsClientCall, Len(trace))
    /\ ret.returned <=> pc = "returned"

\* start returned the error of a report that failed
C5_Witness ==
    /\ pc = "returned"
    /\ Len(trace) = 3
    /\ IsReport(Last) /\ Last.res = "Err" /\ ret = Returned(Last.out)

\* C6: after a fetch whose answer is unusable (no answer, request-id header
\* absent or unparseable, body not JSON) the run is over with the fetch as
\* its last call; a handler call or a report only ever follows a fetch that
\* returned an Invocation.
C6_FailedFetchStopsIteration ==
    /\ ( /\ Len(requests) > 0
         /\ requests[Len(requests)].uri = NextUri(runtime_api_url)
         /\ response # NoResponse
         /\ \/ ~response.transport
            \/ ~response.header.present
            \/ ~response.header.ascii
            \/ ~response.body.json )
       => (pc = "returned" /\ IsFetch(Last) /\ Last.res = "Err")
    /\ \A i \in 1..Len(trace) :
         /\ IsHandle(trace[i]) => (i > 1 /\ FetchOk(trace[i - 1]))
         /\ IsReport(trace[i]) =>
              (i > 2 /\ IsHandle(trace[i - 1]) /\ FetchOk(trace[i - 2]))

\* a fetch answered without the request-id header, after a complete cycle
C6_Witness ==
    /\ Len(trace) = 4
    /\ IsFetch(Last) /\ Last.res = "Err"
    /\ response.transport /\ response.status # 200
    /\ ~response.header.present /\ response.body.json

\* C7: a report carries the request id of the fetch just before it; the ids
\* reported are, in order, the ids fetched, and ids fetched distinct are
\* reported once each.
FetchedIds == SelectSeq(trace, FetchOk)
ReportedIds == SelectSeq(trace, IsReport)
C7_ReportsFollowFetchOrder ==
    /\ \A i \in 1..Len(trace) :
         IsReport(trace[i]) =>
           (i > 2 /\ FetchOk(trace[i - 2]) /\ trace[i].rid = trace[i - 2].rid)
    /\ Len(ReportedIds) <= Len(FetchedIds)
    /\ \A k \in 1..Len(ReportedIds) : ReportedIds[k].rid = FetchedIds[k].rid
    /\ (\A k, l \in 1..Len(FetchedIds) :
          k # l => FetchedIds[k].rid # FetchedIds[l].rid)
       => (\A k, l \in 1..Len(ReportedIds) :
             k # l => ReportedIds[k].rid # ReportedIds[l].rid)

\* two invocations with different ids, both reported
C7_Witness ==
    /\ Len(ReportedIds) = 2
    /\ ReportedIds[1].rid = "abc" /\ ReportedIds[2].rid = "def"
    /\ ReportedIds[2].op = "report_error"

\* the values of the JSON data model among the script values
JsonLike(v) == v.t \in {"string", "object"} \/ (v.t = "number" /\ v.s # "NaN")

\* C8: when the entry point returns a JSON-like value r for the invocation
\* with request id q, the report is report_success(q, r).
C8_ReturnReportedAsSuccess ==
    \A i \in 1..Len(trace) :
      (IsReport(trace[i]) /\ i > 2 /\ trace[i - 1].js.kind = "return"
         /\ JsonLike(trace[i - 1].js.v)) =>
        /\ trace[i].op = "report_success"
        /\ trace[i].rid = trace[i - 2].rid
        /\ trace[i].arg = trace[i - 1].js.v

\* C9: when the entry point throws an exception with message m for the
\* invocation with request id q, the report is report_error(q, ServerError(m)).
C9_ThrowReportedWithMessage ==
    \A i \in 1..Len(trace) :
      (IsReport(trace[i]) /\ i > 2 /\ trace[i - 1].js.kind = "throw") =>
        /\ trace[i].op = "report_error"
        /\ trace[i].rid = trace[i - 2].rid
        /\ trace[i].arg = ServerError(trace[i - 1].js.v.s)

\* C10: when the entry point is missing or not callable, the handler call
\* is the last call of the run: no report and no further fetch.
C10_MissingEntryPointIsFatal ==
    \A i \in 1..Len(trace) :
      (IsHandle(trace[i]) /\ trace[i].js.kind \in {"missing", "notcallable"}) =>
        (i = Len(trace) /\ pc \notin {"fetch"})

\* the handler calls a JSHandler served
IsJS == task_handler.kind = "js"
InSandbox == pc \in {"sandbox", "pump"}

\* C11: when the entry point returned normally, no platform task is pending
\* at the moment its result is converted to host data, and none is left
\* pending when the session ends.
C11_DrainedBeforeResultRead ==
    /\ session.read_pending # -1 => session.read_pending = 0
    /\ (session.js.kind = "return" /\ ~InSandbox) => session.queue = 0

\* C12: every handle call of a JSHandler creates one session, the session is
\* dropped when the call returns, on every path, so at most one session is
\* alive and none outside of a handle call.
C12_OneSessionPerCall ==
    /\ session.live <= 1
    /\ session.live = 1 <=> InSandbox
    /\ pc \in {"fetch", "report", "returned"} => session.live = 0
    /\ session.created =
         (IF IsJS THEN Count(IsHandle, Len(trace)) ELSE 0) + session.live

\* the second session of a run was dropped on the early return of a failed call
C12_Witness ==
    /\ pc = "report"
    /\ session.created = 2 /\ session.live = 0
    /\ Last.res = "Err" /\ Last.js.kind = "throw"

\* C13: every call of the script gives what it gives in a new context in
\* which only the top-level code has run, whatever ran before in the process.
C13_SessionsIsolated ==
    /\ \A i \in 1..Len(trace) :
         (IsJS /\ IsHandle(trace[i])) =>
           LET h == handle(task_handler.script, trace[i].arg) IN
           /\ trace[i].res = h.res
           /\ trace[i].out = h.out
           /\ trace[i].js = h.js
    /\ pc = "sandbox" => session.context = RunScript(task_handler.script)

\* the counting script called in two sessions counts from zero in both
C13_Witness ==
    /\ task_handler.script = "counter"
    /\ Len(trace) >= 5
    /\ IsHandle(trace[2]) /\ trace[2].out = V("string", "1")
    /\ IsHandle(trace[5]) /\ trace[5].out = V("string", "1")

\* C14: with the identity script, handle returns a value equal to the
\* payload it was given.
C14_IdentityRoundTrip ==
    \A i \in 1..Len(trace) :
      (IsJS /\ task_handler.script = "identity" /\ IsHandle(trace[i])) =>
        (trace[i].res = "Ok" /\ trace[i].out = trace[i].arg)

\* C15: once a report call has returned Ok the loop is back at the fetch,
\* after report_error as after report_success; a handler failure leads to
\* report_error and never out of the loop.
C15_LoopContinuesAfterReport ==
    \A i \in 1..Len(trace) :
      /\ (IsReport(trace[i]) /\ trace[i].res = "Ok") =>
           IF i = Len(trace)
           THEN pc = "fetch" /\ ~ret.returned
           ELSE IsFetch(trace[i + 1])
      /\ (IsHandle(trace[i]) /\ trace[i].res = "Err") =>
           IF i = Len(trace)
           THEN pc = "report" /\ ~ret.returned
           ELSE trace[i + 1].op = "report_error"

\* the next fetch issued after a handler failure was reported
C15_Witness ==
    /\ Len(trace) >= 4
    /\ IsHandle(trace[2]) /\ trace[2].res = "Err"
    /\ trace[3].op = "report_error" /\ trace[3].res = "Ok"
    /\ IsFetch(trace[4])

\* the thrown values that signal a client fault (spec 4.3, step 5): the
\* serialized name of the ClientError variant
ClientFaultSignal(v) == v = V("string", "ClientError")

\* C16: a thrown exception is reported by report_error, as ClientError when
\* the thrown value is the client-fault signal and otherwise as ServerError
\* with a non-empty description.
C16_ThrowClassified ==
    \A i \in 1..Len(trace) :
      (IsReport(trace[i]) /\ i > 1 /\ trace[i - 1].js.kind = "throw") =>
        /\ trace[i].op = "report_error"
        /\ IF ClientFaultSignal(trace[i - 1].js.v)
           THEN trace[i].arg = ClientError
           ELSE trace[i].arg.t = "ServerError" /\ trace[i].arg.s # ""

\* C17: the fetch is a GET of /runtime/invocation/next; a report is a POST,
\* of a handler success to .../{request_id}/response and of a handler
\* failure to .../{request_id}/error.
C17_ReportsArePosts ==
    /\ AnsweredFetch =>
         requests[Len(requests)] =
           [method |-> "GET", uri |-> NextUri(runtime_api_url)]
    /\ AnsweredReport =>
         /\ Last.op = "report_success" <=> trace[Len(trace) - 1].res = "Ok"
         /\ requests[Len(requests)] =
              [method |-> "POST",
               uri |-> IF trace[Len(trace) - 1].res = "Ok"
                       THEN ResponseUri(runtime_api_url, Last.rid)
                       ELSE ErrorUri(runtime_api_url, Last.rid)]

\* C18: a handler call directly follows a fetch that returned an Invocation
\* and is given that Invocation's payload; the call after it is the report,
\* so there is one handler call per fetched invocation.
C18_HandlerOncePerInvocation ==
    /\ \A i \in 1..Len(trace) :
         /\ IsHandle(trace[i]) =>
              (i > 1 /\ FetchOk(trace[i - 1]) /\ trace[i].arg = trace[i - 1].out)
         /\ (FetchOk(trace[i]) /\ i < Len(trace)) => IsHandle(trace[i + 1])
         /\ (IsHandle(trace[i]) /\ i < Len(trace)) => IsReport(trace[i + 1])
    /\ (pc \in {"handle", "sandbox", "pump"}) =>
         (FetchOk(Last) /\ work.payload = Last.out)
    /\ pc = "report" => IsHandle(Last)

\* two invocations with different payloads, each handed to the handler
C18_Witness ==
    /\ Len(trace) >= 5
    /\ IsHandle(trace[2]) /\ IsHandle(trace[5])
    /\ trace[2].arg = V("number", "1") /\ trace[5].arg = V("object", "{x:1}")
    /\ ~IsJS

\* every client call made so far returned Ok
AllCallsOk == \A i \in 1..Len(trace) : IsClientCall(trace[i]) => trace[i].res = "Ok"
\* every handler call made so far returned
AllHandlersReturned ==
    \A i \in 1..Len(trace) : IsHandle(trace[i]) => trace[i].res # "panic"
Running == pc \in {"fetch", "handle", "sandbox", "pump", "report"}

\* C19, as stated: the loop stops only by returning the error of a failed
\* client call; as long as every fetch and report succeeds it goes on.
C19_StopsOnlyOnClientFailure ==
    /\ ret.returned =>
         (Len(trace) > 0 /\ IsClientCall(Last) /\ Last.res = "Err"
            /\ ret.v = Last.out /\ ret.v.t = "opaque")
    /\ AllCallsOk => Running

\* C19, amended: start returns only the error of a failed client call, never
\* Ok; as long as every fetch and report succeeds and every handler call
\* returns, the loop goes on, back at the fetch after each report.
C19_ReturnsOnlyOnClientFailure ==
    /\ ret.returned =>
         (Len(trace) > 0 /\ IsClientCall(Last) /\ Last.res = "Err"
            /\ ret.v = Last.out /\ ret.v.t = "opaque")
    /\ pc = "returned" => ret.returned
    /\ (AllCallsOk /\ AllHandlersReturned) =>
         (Running /\ ((Len(trace) > 0 /\ IsReport(Last)) => pc = "fetch"))

\* two invocations fetched, handled and reported, and the loop at the fetch
C19_Witness ==
    /\ Len(trace) = 6
    /\ AllCallsOk /\ AllHandlersReturned
    /\ pc = "fetch" /\ ~ret.returned

\* C20: a handler error tagged ServerError(m) is reported as ServerError of
\* the Debug rendering of ServerError(m); the reported error is the
\* handler's own error only when that is ClientError.
C20_ServerErrorRewrapped ==
    \A i \in 1..Len(trace) :
      (trace[i].op = "report_error" /\ i > 1) =>
        LET err == trace[i - 1].out IN
        /\ err.t = "ServerError" =>
             /\ trace[i].arg = ServerError("ServerError(\"" \o err.s \o "\")")
             /\ trace[i].arg # err
        /\ trace[i].arg = err <=> err = ClientError

\* ServerError("boom") from the handler reported wrapped once more
C20_Witness ==
    \E i \in 2..Len(trace) :
      /\ trace[i].op = "report_error"
      /\ trace[i - 1].out = ServerError("boom")
      /\ trace[i].arg = ServerError("ServerError(\"boom\")")

====
